---- MODULE Spec2Model ----
(***************************************************************************)
(* Model of the scoring pipeline of the influencer-personality app:        *)
(*   assign_scores.py  encode_text, embed_user_input, embed_personalities, *)
(*                     compute_scores, recommend_products                  *)
(*   insights.py       post_style_insights                                 *)
(*                                                                         *)
(* Numbers.  Python floats are carried as exact fractions on fixed grids:  *)
(*   - vector components in units of 1/VecUnit (unit vectors have integer  *)
(*     components with x^2 + y^2 = VecUnit^2);                             *)
(*   - similarities and classifier scores in units of 1/RawScale, where    *)
(*     RawScale = RawPerMilli * 10^ScorePlaces, so that a raw score has    *)
(*     digits beyond the 3 decimals that round(_, 3) keeps;                *)
(*   - reported (rounded) scores in units of 10^-ScorePlaces.              *)
(* round() of a value that lies exactly half way between two grid points   *)
(* depends on the binary expansion of the float (and numpy scalars round   *)
(* differently from Python floats), so a tie may go either way.            *)
(***************************************************************************)
EXTENDS Integers, Sequences, FiniteSets, TLC

\* ---------------------------------------------------------------- bounds
MaxPersonas == 3
MaxPosts == 2
MaxTopK == 4
MaxNegTopK == 2
MaxProducts == 2
MaxRecTopK == 3
MaxInsPosts == 2
RawPerMilli == 10

\* ------------------------------------------------------ program constants
ScorePlaces == 3
VecUnit == 5
ALPHA_DEFAULT == 3
BETA_DEFAULT == 7
WEIGHT_BIO_DEFAULT == 2
TOP_K == 5

Milli == 10^ScorePlaces
RawScale == RawPerMilli * Milli
AlphaDen == 10

\* ------------------------------------------------------------ generic helpers
Range(s) == {s[i] : i \in 1..Len(s)}

Abs(x) == IF x < 0 THEN -x ELSE x

Min(a, b) == IF a < b THEN a ELSE b

Max(a, b) == IF a > b THEN a ELSE b

\* The [::-1] left out.
ReverseOmitted(s) == s

\* s[::-1]
Reverse(s) == [i \in 1..Len(s) |-> s[Len(s) + 1 - i]]

\* s[:k + 1]
PySlicePrefixOffByOne(s, k) ==
    IF k >= 0 THEN SubSeq(s, 1, IF k + 1 < Len(s) THEN k + 1 ELSE Len(s))
    ELSE SubSeq(s, 1, IF Len(s) + k + 1 > 0 THEN Len(s) + k + 1 ELSE 0)

\* Python's s[:k]: a negative k counts from the end.
PySlicePrefix(s, k) ==
    IF k >= 0 THEN SubSeq(s, 1, Min(k, Len(s)))
    ELSE SubSeq(s, 1, Max(Len(s) + k, 0))

RECURSIVE ISqrtRec(_, _, _)
ISqrtRec(lo, hi, x) ==
    IF lo >= hi THEN lo
    ELSE LET mid == (lo + hi + 1) \div 2
         IN IF mid * mid <= x THEN ISqrtRec(mid, hi, x)
                              ELSE ISqrtRec(lo, mid - 1, x)

\* floor(sqrt(x)) for 0 <= x < 2^31
ISqrt(x) == ISqrtRec(0, 46340, x)

\* round(x, ndigits) of a value x given in units of 1/(unit * 10^ndigits):
\* the set of results (in units of 10^-ndigits) the build can produce.
RoundSet(x, unit) ==
    LET lo == x \div unit
        rem == x % unit
    IN IF 2 * rem < unit THEN {lo}
       ELSE IF 2 * rem > unit THEN {lo + 1}
       ELSE {lo, lo + 1}

\* sorted(seq, key=..., reverse=True), with keys[i] the key of seq[i]:
\* descending by key, and elements with equal keys keep their original
\* relative order.  InsertDesc places index e after every index already
\* placed whose key is >= its own.
RECURSIVE InsertDesc(_, _, _)
InsertDesc(sorted, e, keys) ==
    IF sorted = <<>> THEN <<e>>
    ELSE IF keys[Head(sorted)] >= keys[e]
         THEN <<Head(sorted)>> \o InsertDesc(Tail(sorted), e, keys)
         ELSE <<e>> \o sorted

RECURSIVE SortedIdxFrom(_, _, _)
SortedIdxFrom(acc, next, keys) ==
    IF next > Len(keys) THEN acc
    ELSE SortedIdxFrom(InsertDesc(acc, next, keys), next + 1, keys)

\* sorted(seq, key=...)[::-1]: descending, but equal keys come out in reverse
\* of their original order.
SortedThenReversed(seq, keys) ==
    LET order == SortedIdxFrom(<<>>, 1, [i \in 1..Len(keys) |-> 0 - keys[i]])
    IN [i \in 1..Len(seq) |-> seq[order[Len(seq) + 1 - i]]]

SortedReverse(seq, keys) ==
    LET order == SortedIdxFrom(<<>>, 1, keys)
    IN [i \in 1..Len(seq) |-> seq[order[i]]]

\* dict(zip(keys, values)): a later duplicate key overwrites an earlier one.
ZipDict(ks, vs) ==
    LET n == Min(Len(ks), Len(vs))
    IN [k \in {ks[i] : i \in 1..n} |->
           vs[CHOOSE i \in 1..n : ks[i] = k /\ \A j \in 1..n : ks[j] = k => j <= i]]

DictGet(d, k, default) == IF k \in DOMAIN d THEN d[k] ELSE default

\* ------------------------------------------------------------ text encoder
\* The pretrained sentence-embedding model, for the texts of this model.
EncoderModel(text) ==
    CASE text = ""          -> <<3, 4>>
      [] text = " "         -> <<3, 4>>
      [] text = "runner"    -> <<5, 0>>
      [] text = "hiking"    -> <<4, 3>>
      [] text = "recipes"   -> <<0, 5>>
      [] text = "outdoor"   -> <<4, 3>>
      [] text = "foodie"    -> <<4, -3>>
      [] text = "gamer"     -> <<-5, 0>>
      [] text = "artist"    -> <<0, 5>>
      [] text = "techie"    -> <<3, 4>>
      [] text = "runner recipes"  -> <<5, 0>>
      [] text = "boots - gear"    -> <<4, 3>>
      [] text = "apron - kitchen" -> <<4, -3>>
      [] text = "wok - kitchen"   -> <<0, 5>>
      [] OTHER              -> <<-3, 4>>

\* encode_text on a list of texts: one unit vector per text, in order.
encode_text(texts) == [i \in 1..Len(texts) |-> EncoderModel(texts[i])]

\* str.strip() on the bios of this model.
Strip(s) ==
    CASE s = " "       -> ""
      [] s = " runner" -> "runner"
      [] OTHER         -> s

\* ------------------------------------------------------------ persona catalog
PersonaCatalog ==
    << [label |-> "Outdoor", description |-> "outdoor"],
       [label |-> "Foodie",  description |-> "foodie"],
       [label |-> "Gamer",   description |-> "gamer"],
       [label |-> "Artist",  description |-> "artist"],
       [label |-> "Techie",  description |-> "techie"] >>

embed_personalities(personas) ==
    encode_text([i \in 1..Len(personas) |-> personas[i].description])

\* ------------------------------------------------------------ user vector
RECURSIVE SumWeighted(_, _, _)
SumWeighted(weights, vectors, c) ==
    IF weights = <<>> THEN 0
    ELSE Head(weights) * Head(vectors)[c]
         + SumWeighted(Tail(weights), Tail(vectors), c)

\* A weighted mean: the sum divided by the sum of the weights.
embed_user_input_weighted_mean(b, ps, w) ==
    LET texts == <<Strip(b)>> \o ps
        weights == <<w>> \o [i \in 1..Len(ps) |-> 1]
        vectors == encode_text(texts)
    IN [x |-> SumWeighted(weights, vectors, 1),
        y |-> SumWeighted(weights, vectors, 2),
        den |-> VecUnit * (w + Len(ps))]

\* embed_user_input: the element-wise mean of the weighted vectors, as the
\* fraction (x / den, y / den) with den = VecUnit * number of texts.
embed_user_input(b, ps, w) ==
    LET texts == <<Strip(b)>> \o ps
        weights == <<w>> \o [i \in 1..Len(ps) |-> 1]
        vectors == encode_text(texts)
    IN [x |-> SumWeighted(weights, vectors, 1),
        y |-> SumWeighted(weights, vectors, 2),
        den |-> VecUnit * Len(texts)]

\* sklearn cosine_similarity of the user vector with one unit vector v, in
\* units of 1/RawScale; a zero vector is normalised by 1 and gives 0.
cosine_similarity(u, v) ==
    LET dot == u.x * v[1] + u.y * v[2]
        normU == ISqrt((u.x * u.x + u.y * u.y) * Milli * Milli)
        mag == (RawScale * Abs(dot) * Milli) \div (normU * VecUnit)
    IN IF normU = 0 THEN 0
       ELSE IF dot < 0 THEN -mag ELSE mag

\* ------------------------------------------------------------ state
VARIABLES
    \* compute_scores: arguments
    bio, posts, personalities, personalities_vectors, alpha, beta, top_k,
    weight_bio,
    \* compute_scores: position, locals, outcome
    pc, user_vector, sims, top_idxs, labels, zero_shot_scores, result, error,
    encoderCalls, classifierCalls,
    \* which external service raised during the request, if any
    fault,
    \* recommend_products: arguments
    rec_posts, top_personas, product_catalog, rec_top_k,
    \* recommend_products: position, locals, outcome
    rec_pc, products, scores, rec_entries, rec_result, rec_error,
    \* post_style_insights: argument, position, outcome
    ins_posts, ins_pc, ins_result

scoreVars == <<bio, posts, personalities, personalities_vectors, alpha, beta,
               top_k, weight_bio, pc, user_vector, sims, top_idxs, labels,
               zero_shot_scores, result, error, encoderCalls, classifierCalls,
               fault>>

recVars == <<rec_posts, top_personas, product_catalog, rec_top_k, rec_pc,
             products, scores, rec_entries, rec_result, rec_error>>

insVars == <<ins_posts, ins_pc, ins_result>>

vars == <<scoreVars, recVars, insVars>>

\* ------------------------------------------------------------ inputs
Bios == {"", " runner"}

PostTexts == {"hiking", "recipes"}

PostLists == UNION {[1..n -> PostTexts] : n \in 0..MaxPosts}

\* (alpha, beta) in tenths: the app's defaults, and equal unit weights.
Weightings == {<<ALPHA_DEFAULT, BETA_DEFAULT>>, <<AlphaDen, AlphaDen>>}

WeightBioValues == {1, WEIGHT_BIO_DEFAULT}

TopKValues == (0 - MaxNegTopK)..MaxTopK

\* ------------------------------------------------------------ compute_scores
\* np.argsort(sims): a permutation of the indices that puts sims in ascending
\* order.  The default sort kind is not stable, so equal similarities may
\* come out in any order.
Argsort(xs) ==
    {p \in [1..Len(xs) -> 1..Len(xs)] :
        /\ \A i, j \in 1..Len(xs) : i # j => p[i] # p[j]
        /\ \A i \in 1..(Len(xs) - 1) : xs[p[i]] <= xs[p[i + 1]]}

\* The zero-shot classifier on a non-empty candidate list: a probability
\* distribution over exactly the candidates, reported as parallel lists
\* ordered by descending score.
ZSGrid == {0, (2 * RawPerMilli) \div 5, RawPerMilli \div 2, RawScale \div 3,
           RawScale \div 2}

RECURSIVE SeqSum(_)
SeqSum(s) == IF s = <<>> THEN 0 ELSE Head(s) + SeqSum(Tail(s))

Distributions(k) ==
    IF k = 0 THEN {}
    ELSE {pre \o <<RawScale - SeqSum(pre)>> :
             pre \in {q \in [1..(k - 1) -> ZSGrid] : SeqSum(q) <= RawScale}}

zero_shot(candidate_labels) ==
    {[labels |-> SortedReverse(candidate_labels, d),
      scores |-> SortedReverse(d, d)] : d \in Distributions(Len(candidate_labels))}

\* The entry fused from its rounded fields.
EntriesFusedFromRounded(j, idxs, lbls, ss, zss, a, b) ==
    LET i == idxs[j]
        label == lbls[j]
        zs == DictGet(zss, label, 0)
    IN {[label |-> label, embed_score |-> e, zero_shot_score |-> z,
         combined_score |-> c] :
           e \in RoundSet(ss[i], RawPerMilli),
           z \in RoundSet(zs, RawPerMilli),
           c \in UNION {RoundSet(a * e2 + b * z2, AlphaDen) :
                           e2 \in RoundSet(ss[i], RawPerMilli),
                           z2 \in RoundSet(zs, RawPerMilli)}}

\* One dictionary of the returned list, for shortlist position j, with every
\* outcome of the three round() calls.
Entries(j, idxs, lbls, ss, zss, a, b) ==
    LET i == idxs[j]
        label == lbls[j]
        zs == DictGet(zss, label, 0)
    IN {[label |-> label, embed_score |-> e, zero_shot_score |-> z,
         combined_score |-> c] :
           e \in RoundSet(ss[i], RawPerMilli),
           z \in RoundSet(zs, RawPerMilli),
           c \in RoundSet(a * ss[i] + b * zs, AlphaDen * RawPerMilli)}

RECURSIVE EntryLists(_, _, _, _, _, _, _)
EntryLists(j, idxs, lbls, ss, zss, a, b) ==
    IF j = 0 THEN {<<>>}
    ELSE {Append(pre, e) : pre \in EntryLists(j - 1, idxs, lbls, ss, zss, a, b),
                           e \in Entries(j, idxs, lbls, ss, zss, a, b)}

\* key=lambda x: x["combined_score"]
SortKeyCombined(entries) == [j \in 1..Len(entries) |-> entries[j].combined_score]

\* The key of the final sort.
SortKey(entries) == [j \in 1..Len(entries) |-> entries[j].zero_shot_score]

\* Lines 91-94: encode the user's texts, rank the personas, cut the shortlist.
Shortlist ==
    /\ pc = "start"
    /\ encoderCalls' = encoderCalls + 1
    /\ user_vector' = embed_user_input(bio, posts, weight_bio)
    /\ sims' = [i \in 1..Len(personalities_vectors) |->
                    cosine_similarity(user_vector', personalities_vectors[i])]
    /\ \E order \in Argsort(sims') :
          top_idxs' = PySlicePrefix(Reverse(order), top_k)
    /\ labels' = [j \in 1..Len(top_idxs') |-> personalities[top_idxs'[j]].label]
    /\ pc' = "shortlisted"
    /\ UNCHANGED <<bio, posts, personalities, personalities_vectors, alpha,
                   beta, top_k, weight_bio, zero_shot_scores, result, error,
                   classifierCalls, fault, recVars, insVars>>

\* Line 91, the embedding model raising: nothing catches it.
EncoderFails ==
    /\ pc = "start"
    /\ encoderCalls' = encoderCalls + 1
    /\ fault' = "encoder"
    /\ pc' = "failed"
    /\ error' = "EncodingFailure"
    /\ UNCHANGED <<bio, posts, personalities, personalities_vectors, alpha,
                   beta, top_k, weight_bio, user_vector, sims, top_idxs,
                   labels, zero_shot_scores, result, classifierCalls, recVars, insVars>>

\* Lines 96-113: classify against the shortlist, fuse, sort, return.
Rescore ==
    /\ pc = "shortlisted"
    /\ classifierCalls' = classifierCalls + 1
    /\ \E zs \in zero_shot(labels) :
          /\ zero_shot_scores' = ZipDict(zs.labels, zs.scores)
          /\ \E entries \in EntryLists(Len(labels), top_idxs, labels, sims,
                                        zero_shot_scores', alpha, beta) :
                result' = SortedReverse(entries, SortKey(entries))
    /\ pc' = "done"
    /\ UNCHANGED <<bio, posts, personalities, personalities_vectors, alpha,
                   beta, top_k, weight_bio, user_vector, sims, top_idxs,
                   labels, error, encoderCalls, fault, recVars, insVars>>

\* The classifier's failure caught and every zero-shot score defaulted to 0.
ClassifierFailsFallback ==
    /\ pc = "shortlisted"
    /\ classifierCalls' = classifierCalls + 1
    /\ fault' = "classifier"
    /\ zero_shot_scores' = <<>>
    /\ \E entries \in EntryLists(Len(labels), top_idxs, labels, sims,
                                  zero_shot_scores', alpha, beta) :
          result' = SortedReverse(entries, SortKey(entries))
    /\ pc' = "done"
    /\ UNCHANGED <<bio, posts, personalities, personalities_vectors, alpha,
                   beta, top_k, weight_bio, user_vector, sims, top_idxs,
                   labels, error, encoderCalls, recVars, insVars>>

\* Line 96, the classifier raising (it always does on an empty candidate
\* list): nothing catches it.
ClassifierFails ==
    /\ pc = "shortlisted"
    /\ classifierCalls' = classifierCalls + 1
    /\ fault' = "classifier"
    /\ pc' = "failed"
    /\ error' = "ClassificationFailure"
    /\ UNCHANGED <<bio, posts, personalities, personalities_vectors, alpha,
                   beta, top_k, weight_bio, user_vector, sims, top_idxs,
                   labels, zero_shot_scores, result, encoderCalls, recVars, insVars>>

\* The state of a component no request has reached.
IdleScores ==
    /\ bio = ""
    /\ posts = <<>>
    /\ personalities = <<>>
    /\ personalities_vectors = <<>>
    /\ alpha = ALPHA_DEFAULT
    /\ beta = BETA_DEFAULT
    /\ top_k = TOP_K
    /\ weight_bio = WEIGHT_BIO_DEFAULT
    /\ pc = "idle"
    /\ user_vector = [x |-> 0, y |-> 0, den |-> 1]
    /\ sims = <<>>
    /\ top_idxs = <<>>
    /\ labels = <<>>
    /\ zero_shot_scores = <<>>
    /\ result = <<>>
    /\ error = "none"
    /\ encoderCalls = 0
    /\ classifierCalls = 0
    /\ fault = "none"

IdleRecommend ==
    /\ rec_posts = <<>>
    /\ top_personas = <<>>
    /\ product_catalog = <<>>
    /\ rec_top_k = TOP_K
    /\ rec_pc = "idle"
    /\ products = <<>>
    /\ scores = <<>>
    /\ rec_entries = <<>>
    /\ rec_result = <<>>
    /\ rec_error = "none"

IdleInsights ==
    /\ ins_posts = <<>>
    /\ ins_pc = "idle"
    /\ ins_result = <<>>

InitScores ==
    /\ bio \in Bios
    /\ posts \in PostLists
    /\ \E n \in 1..MaxPersonas : personalities = SubSeq(PersonaCatalog, 1, n)
    /\ personalities_vectors = embed_personalities(personalities)
    /\ \E w \in Weightings : alpha = w[1] /\ beta = w[2]
    /\ top_k \in TopKValues
    /\ weight_bio \in WeightBioValues
    /\ pc = "start"
    /\ user_vector = [x |-> 0, y |-> 0, den |-> 1]
    /\ sims = <<>>
    /\ top_idxs = <<>>
    /\ labels = <<>>
    /\ zero_shot_scores = <<>>
    /\ result = <<>>
    /\ error = "none"
    /\ encoderCalls = 0
    /\ classifierCalls = 0
    /\ fault = "none"
    /\ IdleRecommend
    /\ IdleInsights

NextScores == Shortlist \/ EncoderFails \/ Rescore \/ ClassifierFails

SpecScores == InitScores /\ [][NextScores]_vars

\* ------------------------------------------------------------ recommend_products
\* " ".join(texts)
RECURSIVE Join(_)
Join(texts) ==
    IF texts = <<>> THEN ""
    ELSE IF Len(texts) = 1 THEN texts[1]
    ELSE texts[1] \o " " \o Join(Tail(texts))

\* f"{p['product']} - {p['category']}"
ProductText(p) == p.product \o " - " \o p.category

\* [p for persona in top_personas for p in product_catalog.get(persona, [])]
RECURSIVE CollectProducts(_, _)
CollectProducts(personas, catalog) ==
    IF personas = <<>> THEN <<>>
    ELSE DictGet(catalog, Head(personas), <<>>)
         \o CollectProducts(Tail(personas), catalog)

\* The lists handed to sorted(): one dictionary per candidate, with every
\* outcome of round(s, 3).
RECURSIVE RecEntryLists(_, _, _)
RecEntryLists(j, ps, ss) ==
    IF j = 0 THEN {<<>>}
    ELSE {Append(pre, [product |-> ps[j].product, category |-> ps[j].category,
                       score |-> r]) :
             pre \in RecEntryLists(j - 1, ps, ss),
             r \in RoundSet(ss[j], RawPerMilli)}

RecSortKey(entries) == [j \in 1..Len(entries) |-> entries[j].score]

\* Lines 139-155 with the embedding model answering.
RecommendProducts ==
    /\ rec_pc = "start"
    /\ LET user == encode_text(<<Join(rec_posts)>>)[1]
           uv == [x |-> user[1], y |-> user[2], den |-> VecUnit]
           cands == CollectProducts(top_personas, product_catalog)
           product_texts == [i \in 1..Len(cands) |-> ProductText(cands[i])]
           product_vecs == encode_text(product_texts)
       IN /\ products' = cands
          /\ IF cands = <<>>
             THEN /\ scores' = <<>>
                  /\ rec_entries' = <<>>
                  /\ rec_result' = <<>>
             ELSE /\ scores' = [i \in 1..Len(cands) |->
                                   cosine_similarity(uv, product_vecs[i])]
                  /\ rec_entries' \in RecEntryLists(Len(cands), cands, scores')
                  /\ rec_result' =
                        PySlicePrefix(SortedReverse(rec_entries',
                                                    RecSortKey(rec_entries')),
                                      rec_top_k)
    /\ rec_pc' = "done"
    /\ UNCHANGED <<rec_posts, top_personas, product_catalog, rec_top_k,
                   rec_error, scoreVars, insVars>>

\* Line 139 or 145, the embedding model raising: nothing catches it.
RecommendEncoderFails ==
    /\ rec_pc = "start"
    /\ rec_pc' = "failed"
    /\ rec_error' = "EncodingFailure"
    /\ UNCHANGED <<rec_posts, top_personas, product_catalog, rec_top_k,
                   products, scores, rec_entries, rec_result, scoreVars, insVars>>

ProductPool ==
    {[product |-> "boots", category |-> "gear"],
     [product |-> "apron", category |-> "kitchen"],
     [product |-> "wok", category |-> "kitchen"]}

ProductLists == UNION {[1..n -> ProductPool] : n \in 0..MaxProducts}

ProductCatalogs ==
    [{"Outdoor"} -> ProductLists] \cup [{"Outdoor", "Foodie"} -> ProductLists]

TopPersonaLists ==
    {<<>>, <<"Gamer">>, <<"Outdoor">>, <<"Foodie", "Outdoor">>,
     <<"Outdoor", "Gamer", "Foodie">>, <<"Outdoor", "Outdoor">>}

RecPostLists == {<<"hiking">>, <<"runner", "recipes">>}

RecTopKValues == (0 - 1)..MaxRecTopK

InitRecommend ==
    /\ rec_posts \in RecPostLists
    /\ top_personas \in TopPersonaLists
    /\ product_catalog \in ProductCatalogs
    /\ rec_top_k \in RecTopKValues
    /\ rec_pc = "start"
    /\ products = <<>>
    /\ scores = <<>>
    /\ rec_entries = <<>>
    /\ rec_result = <<>>
    /\ rec_error = "none"
    /\ IdleScores
    /\ IdleInsights

NextRecommend == RecommendProducts \/ RecommendEncoderFails

SpecRecommend == InitRecommend /\ [][NextRecommend]_vars

\* ------------------------------------------------------------ post_style_insights
\* A post is its sequence of characters (code points), each a string.
\* The emoji package's table, for the characters of this model: U+1F3D4
\* (snow-capped mountain) and U+1F600 are emoji; the variation selector
\* U+FE0F alone is not.
EmojiData == {"U+1F3D4", "U+1F600"}

is_emoji(c) == c \in EmojiData

Whitespace == {" ", "\t", "\n"}

\* p.count(c)
RECURSIVE CountChar(_, _)
CountChar(p, c) ==
    IF p = <<>> THEN 0
    ELSE (IF Head(p) = c THEN 1 ELSE 0) + CountChar(Tail(p), c)

\* len(p.split()): the number of maximal runs of non-whitespace characters.
RECURSIVE SplitCount(_, _)
SplitCount(p, inWord) ==
    IF p = <<>> THEN 0
    ELSE IF Head(p) \in Whitespace THEN SplitCount(Tail(p), FALSE)
    ELSE (IF inWord THEN 0 ELSE 1) + SplitCount(Tail(p), TRUE)

\* p.count(" ")
WordCountSpaces(p) == CountChar(p, " ")

WordCount(p) == SplitCount(p, FALSE)

HasEmoji(p) == \E i \in 1..Len(p) : is_emoji(p[i])

\* sum(len(p) for p in posts)
RECURSIVE TotalChars(_)
TotalChars(ps) ==
    IF ps = <<>> THEN 0 ELSE Len(Head(ps)) + TotalChars(Tail(ps))

\* sum(len(p.split()) for p in posts)
RECURSIVE TotalWords(_)
TotalWords(ps) ==
    IF ps = <<>> THEN 0 ELSE WordCount(Head(ps)) + TotalWords(Tail(ps))

\* sum(1 for p in posts if any(emoji.is_emoji(c) for c in p))
RECURSIVE PostsWithEmoji(_)
PostsWithEmoji(ps) ==
    IF ps = <<>> THEN 0
    ELSE (IF HasEmoji(Head(ps)) THEN 1 ELSE 0) + PostsWithEmoji(Tail(ps))

\* sum(p.count("!") for p in posts)
RECURSIVE TotalExclamations(_)
TotalExclamations(ps) ==
    IF ps = <<>> THEN 0
    ELSE CountChar(Head(ps), "!") + TotalExclamations(Tail(ps))

\* Lines 23-38: the possible return values (chars and words and emoji
\* percentage in tenths, exclamations in hundredths).
post_style_insights(ps) ==
    IF ps = <<>> THEN {<<>>}
    ELSE LET total_chars == TotalChars(ps)
             total_words == TotalWords(ps)
             posts_with_emoji == PostsWithEmoji(ps)
             exclamations == TotalExclamations(ps)
             num == Len(ps)
         IN {[avg_post_length_chars |-> c, avg_post_length_words |-> w,
              emoji_usage_percent |-> e, avg_exclamations_per_post |-> x] :
                c \in RoundSet(10 * total_chars, num),
                w \in RoundSet(10 * total_words, num),
                e \in RoundSet(10 * 100 * posts_with_emoji, num),
                x \in RoundSet(100 * exclamations, num)}

PostStyleInsights ==
    /\ ins_pc = "start"
    /\ ins_result' \in post_style_insights(ins_posts)
    /\ ins_pc' = "done"
    /\ UNCHANGED <<ins_posts, scoreVars, recVars>>

\* "I love hiking! " followed by U+1F3D4 U+FE0F
PostHiking ==
    <<"I", " ", "l", "o", "v", "e", " ", "h", "i", "k", "i", "n", "g", "!",
      " ", "U+1F3D4", "U+FE0F">>

\* "Best trail ever!!"
PostTrail ==
    <<"B", "e", "s", "t", " ", "t", "r", "a", "i", "l", " ", "e", "v", "e",
      "r", "!", "!">>

ScenarioPosts == <<PostHiking, PostTrail>>

PostPool ==
    {PostHiking, PostTrail, <<>>, <<"!">>, <<" ", "a", " ", " ", "b", "\n">>,
     <<"U+1F600", "!", "!">>, <<"o", "k">>, <<"U+FE0F", "\t", "a", " ", "b", " ", "c">>}

InsPostLists == UNION {[1..n -> PostPool] : n \in 0..MaxInsPosts}

InitInsights ==
    /\ ins_posts \in InsPostLists
    /\ ins_pc = "start"
    /\ ins_result = <<>>
    /\ IdleScores
    /\ IdleRecommend

NextInsights == PostStyleInsights

SpecInsights == InitInsights /\ [][NextInsights]_vars

\* ================================================================ claims
\* ---------------------------------------------------------------- helpers
CatalogLabels == {personalities[i].label : i \in 1..Len(personalities)}

\* The catalog index of a (unique) label.
IndexOfLabel(l) == CHOOSE i \in 1..Len(personalities) : personalities[i].label = l

\* The shortlist position of a label.
ShortlistPos(l) == CHOOSE j \in 1..Len(labels) : labels[j] = l

\* v is a nearest multiple of unit to x (a result of rounding x).
IsRounding(v, x, unit) == 2 * Abs(v * unit - x) <= unit

\* C1: with top_k >= 1 and a classifier returning a distribution over the
\* candidates, compute_scores returns exactly min(top_k, n) entries, each
\* label is a catalog label, no label occurs twice, every zero_shot_score is
\* in [0, 1], and the list is in descending zero_shot_score order.
C1_ResultShape ==
    (pc = "done" /\ top_k >= 1) =>
        /\ Len(result) = Min(top_k, Len(personalities))
        /\ \A a \in 1..Len(result) : result[a].label \in CatalogLabels
        /\ \A a, b \in 1..Len(result) :
              a # b => result[a].label # result[b].label
        /\ \A a \in 1..Len(result) :
              result[a].zero_shot_score >= 0 /\ result[a].zero_shot_score <= Milli
        /\ \A a \in 1..(Len(result) - 1) :
              result[a].zero_shot_score >= result[a + 1].zero_shot_score

C1_Witness ==
    /\ pc = "done"
    /\ top_k >= 2
    /\ top_k < Len(personalities)
    /\ Len(result) = top_k
    /\ result[1].zero_shot_score > result[2].zero_shot_score

\* C2 (as stated): every returned entry's combined_score is the rounding of
\* alpha * embed_score + beta * zero_shot_score computed from the entry's own
\* reported (already rounded) fields.
C2_FusionFromReportedFields ==
    pc = "done" =>
        \A a \in 1..Len(result) :
            IsRounding(result[a].combined_score,
                       alpha * result[a].embed_score
                           + beta * result[a].zero_shot_score,
                       AlphaDen)

\* C2 (amended): every returned entry's combined_score is the rounding to 3
\* decimals of alpha * sim + beta * zs, where sim and zs are the unrounded
\* similarity and classifier score of the entry's persona.
C2_FusionFromRawScores ==
    pc = "done" =>
        \A a \in 1..Len(result) :
            LET l == result[a].label
            IN /\ l \in DOMAIN zero_shot_scores
               /\ IsRounding(result[a].combined_score,
                             alpha * sims[IndexOfLabel(l)]
                                 + beta * zero_shot_scores[l],
                             AlphaDen * RawPerMilli)

\* An entry whose three roundings are all free of ties and whose reported
\* fields do not reproduce its combined_score.
C2_Witness ==
    /\ pc = "done"
    /\ \E a \in 1..Len(result) :
          LET sim == sims[IndexOfLabel(result[a].label)]
              zs == zero_shot_scores[result[a].label]
          IN
          /\ Cardinality(RoundSet(sim, RawPerMilli)) = 1
          /\ Cardinality(RoundSet(zs, RawPerMilli)) = 1
          /\ Cardinality(RoundSet(alpha * sim + beta * zs,
                                  AlphaDen * RawPerMilli)) = 1
          /\ ~IsRounding(result[a].combined_score,
                         alpha * result[a].embed_score
                             + beta * result[a].zero_shot_score,
                         AlphaDen)

\* C4: with an empty bio and no posts, compute_scores fails with
\* EmptyInputError: the encoder is asked nothing, the classifier is not
\* called, and no list is returned.
C4_EmptyInputRejected ==
    (bio = "" /\ posts = <<>>) =>
        /\ encoderCalls = 0
        /\ classifierCalls = 0
        /\ pc # "done"
        /\ error \in {"none", "EmptyInputError"}

\* C5: for top_k outside 1..n, compute_scores returns exactly
\* min(max(top_k, 1), n) entries or fails with InvalidParameterError; it
\* never returns a list of another length.
C5_TopKClamped ==
    (top_k < 1 \/ top_k > Len(personalities)) =>
        /\ pc = "done" =>
              Len(result) = Min(Max(top_k, 1), Len(personalities))
        /\ pc = "failed" =>
              error \in {"InvalidParameterError", "EncodingFailure",
                         "ClassificationFailure"}

\* C6: a request fully succeeds or fully fails.  After an encoder failure the
\* classifier has not been called and nothing is returned; after a
\* classifier failure that failure is what the caller gets and nothing is
\* returned; a list is returned only by a request that did not fail.
C6_AllOrNothing ==
    /\ fault = "encoder" =>
          /\ pc = "failed"
          /\ error = "EncodingFailure"
          /\ classifierCalls = 0
          /\ result = <<>>
    /\ fault = "classifier" =>
          /\ pc = "failed"
          /\ error = "ClassificationFailure"
          /\ result = <<>>
    /\ pc = "done" =>
          fault = "none" /\ error = "none" /\ Len(result) = Len(labels)
    /\ pc \in {"start", "shortlisted"} => result = <<>>

C6_Witness ==
    /\ pc = "failed"
    /\ fault = "classifier"
    /\ error = "ClassificationFailure"
    /\ Len(labels) >= 2
    /\ encoderCalls = 1

\* C8 (as stated): the shortlist holds the top_k most similar personas, and
\* of two equally similar personas the one earlier in the catalog is
\* preferred: whenever the later one is shortlisted, the earlier one is too,
\* at an earlier position.
C8_TiesPreferEarlier ==
    pc \in {"shortlisted", "done"} =>
        \A j \in 1..Len(top_idxs) : \A e \in 1..Len(personalities) :
            (e < top_idxs[j] /\ sims[e] = sims[top_idxs[j]]) =>
                \E j2 \in 1..(j - 1) : top_idxs[j2] = e

\* C8 (amended): the shortlist lists distinct personas in descending
\* similarity order, and no persona left out is strictly more similar than
\* a shortlisted one; the order of equally similar personas is not fixed.
C8_ShortlistBySimilarity ==
    pc \in {"shortlisted", "done"} =>
        /\ \A j \in 1..Len(top_idxs) : top_idxs[j] \in 1..Len(personalities)
        /\ \A j, j2 \in 1..Len(top_idxs) :
              j < j2 => /\ top_idxs[j] # top_idxs[j2]
                        /\ sims[top_idxs[j]] >= sims[top_idxs[j2]]
        /\ \A j \in 1..Len(top_idxs) : \A o \in 1..Len(personalities) :
              (\A j2 \in 1..Len(top_idxs) : top_idxs[j2] # o) =>
                  sims[o] <= sims[top_idxs[j]]
        /\ top_k >= 0 => Len(top_idxs) = Min(top_k, Len(personalities))

C8_Witness ==
    /\ pc = "shortlisted"
    /\ Len(top_idxs) = 1
    /\ Len(personalities) >= 2
    /\ \E e \in 1..Len(personalities) :
          e < top_idxs[1] /\ sims[e] = sims[top_idxs[1]]

\* C9 (as stated): with no posts, the user vector equals the bio vector.
C9_UserVectorIsBioVector ==
    (posts = <<>> /\ pc \in {"shortlisted", "done"}) =>
        LET bv == EncoderModel(Strip(bio))
        IN /\ user_vector.x * VecUnit = bv[1] * user_vector.den
           /\ user_vector.y * VecUnit = bv[2] * user_vector.den

\* C9 (amended): with no posts, the user vector equals weight_bio times the
\* bio vector (the mean divides by the number of texts, 1, not by the
\* weight), so it is the bio vector only for weight_bio = 1.
C9_UserVectorIsWeightedBioVector ==
    (posts = <<>> /\ pc \in {"shortlisted", "done"}) =>
        LET bv == EncoderModel(Strip(bio))
        IN /\ user_vector.x * VecUnit = weight_bio * bv[1] * user_vector.den
           /\ user_vector.y * VecUnit = weight_bio * bv[2] * user_vector.den

C9_Witness ==
    /\ posts = <<>>
    /\ pc = "shortlisted"
    /\ weight_bio = WEIGHT_BIO_DEFAULT
    /\ user_vector.x = WEIGHT_BIO_DEFAULT * VecUnit

\* C10: returned entries with equal (reported) zero_shot_score keep their
\* shortlist order, and the list is ordered by zero_shot_score alone.
C10_TiesKeepShortlistOrder ==
    pc = "done" =>
        \A a, b \in 1..Len(result) :
            a < b =>
                \/ result[a].zero_shot_score > result[b].zero_shot_score
                \/ /\ result[a].zero_shot_score = result[b].zero_shot_score
                   /\ ShortlistPos(result[a].label) < ShortlistPos(result[b].label)

C10_Witness ==
    /\ pc = "done"
    /\ \E a, b \in 1..Len(result) :
          a < b /\ result[a].zero_shot_score = result[b].zero_shot_score
    /\ \E a, b \in 1..Len(result) :
          a < b /\ result[a].combined_score < result[b].combined_score

\* ---------------------------------------------------------------- C3
\* The number of candidates contributed by the personas before position q.
RECURSIVE CandidateOffset(_)
CandidateOffset(q) ==
    IF q <= 1 THEN 0
    ELSE CandidateOffset(q - 1)
         + (IF top_personas[q - 1] \in DOMAIN product_catalog
            THEN Len(product_catalog[top_personas[q - 1]]) ELSE 0)

\* The place of candidate i in a stable descending order by score: after
\* every candidate with a higher score and every earlier one with the same.
CandidateRank(i) ==
    1 + Cardinality({j \in 1..Len(rec_entries) :
                        \/ rec_entries[j].score > rec_entries[i].score
                        \/ /\ rec_entries[j].score = rec_entries[i].score
                           /\ j < i})

\* C3: the candidates are the catalog entries of the listed personas,
\* concatenated in the order of top_personas and not de-duplicated; the
\* result is the first top_k of them in descending score order, equal scores
\* in candidate order; with no candidate (top_personas empty, or none of its
\* labels a key of the catalog) the result is the empty list, not an error.
C3_RecommendRanking ==
    rec_pc = "done" =>
        /\ rec_error = "none"
        /\ Len(products) = CandidateOffset(Len(top_personas) + 1)
        /\ \A q \in 1..Len(top_personas) :
              top_personas[q] \in DOMAIN product_catalog =>
                  \A r \in 1..Len(product_catalog[top_personas[q]]) :
                      products[CandidateOffset(q) + r]
                          = product_catalog[top_personas[q]][r]
        /\ Len(rec_entries) = Len(products)
        /\ \A i \in 1..Len(products) :
              /\ rec_entries[i].product = products[i].product
              /\ rec_entries[i].category = products[i].category
              /\ IsRounding(rec_entries[i].score, scores[i], RawPerMilli)
        /\ rec_top_k >= 0 =>
              /\ Len(rec_result) = Min(rec_top_k, Len(products))
              /\ \A i \in 1..Len(products) :
                    CandidateRank(i) <= Len(rec_result) =>
                        rec_result[CandidateRank(i)] = rec_entries[i]
        /\ (\A q \in 1..Len(top_personas) :
                top_personas[q] \notin DOMAIN product_catalog) =>
              rec_result = <<>>

\* Two personas contribute, a product occurs twice among the candidates,
\* two different products tie on score, and top_k cuts the list.
C3_Witness ==
    /\ rec_pc = "done"
    /\ Len(top_personas) >= 2
    /\ rec_top_k >= 2
    /\ Len(products) > rec_top_k
    /\ \E i, j \in 1..Len(products) : i < j /\ products[i] = products[j]
    /\ \E a, b \in 1..Len(rec_result) :
          /\ a < b
          /\ rec_result[a].score = rec_result[b].score
          /\ rec_result[a].product # rec_result[b].product

\* The empty case of C3.
C3_WitnessEmpty ==
    /\ rec_pc = "done"
    /\ top_personas = <<"Gamer">>
    /\ rec_result = <<>>

\* ---------------------------------------------------------------- C7
\* Whitespace-delimited tokens of a post, counted by their first characters.
TokenStarts(p) ==
    Cardinality({i \in 1..Len(p) :
                    /\ p[i] \notin Whitespace
                    /\ (i = 1 \/ p[i - 1] \in Whitespace)})

RECURSIVE TotalTokens(_)
TotalTokens(ps) ==
    IF ps = <<>> THEN 0 ELSE TokenStarts(Head(ps)) + TotalTokens(Tail(ps))

\* C7 (as stated): for the two scenario posts, avg_exclamations_per_post is
\* 1.5, emoji_usage_percent is 50.0 and avg_post_length_words is 4.0.
C7_ScenarioAsStated ==
    (ins_pc = "done" /\ ins_posts = ScenarioPosts) =>
        /\ ins_result.avg_exclamations_per_post = 150
        /\ ins_result.emoji_usage_percent = 500
        /\ ins_result.avg_post_length_words = 40

\* C7 (amended): for the two scenario posts (4 and 3 tokens),
\* avg_exclamations_per_post is 1.5, emoji_usage_percent is 50.0 and
\* avg_post_length_words is 3.5; for any posts, avg_post_length_words is the
\* sum of the whitespace-delimited token counts divided by the number of
\* posts, rounded to 1 decimal.
C7_ScenarioWords ==
    /\ (ins_pc = "done" /\ ins_posts = ScenarioPosts) =>
          /\ TokenStarts(PostHiking) = 4
          /\ TokenStarts(PostTrail) = 3
          /\ ins_result.avg_exclamations_per_post = 150
          /\ ins_result.emoji_usage_percent = 500
          /\ ins_result.avg_post_length_words = 35
    /\ (ins_pc = "done" /\ ins_posts # <<>>) =>
          IsRounding(ins_result.avg_post_length_words,
                     10 * TotalTokens(ins_posts), Len(ins_posts))

C7_Witness ==
    /\ ins_pc = "done"
    /\ ins_posts = ScenarioPosts
    /\ ins_result.avg_post_length_words = 35

====
